---- MODULE Spec2Model ----
(***************************************************************************)
(* Model of transcription-test.py: the command-line entry point (lines     *)
(* 42-49) and transcribe_audio (lines 9-40).  The speech-recognition       *)
(* library (faster_whisper) is an opaque collaborator: every call made on  *)
(* it either returns a value drawn from a small set or raises an           *)
(* Exception carrying a message.  The segment stream is lazy: each         *)
(* request for the next segment is answered when it is made.  Writes to    *)
(* standard output are taken to succeed.                                   *)
(*                                                                         *)
(* Strings whose content matters (segment texts, the transcript) are       *)
(* sequences of characters; times are integers.                            *)
(***************************************************************************)
EXTENDS Integers, Sequences, FiniteSets, TLC

VARIABLES argv, pc, stdout, exit, model, info, yielded, stream,
          result, full_text, ret, exc, log

vars == <<argv, pc, stdout, exit, model, info, yielded, stream,
          result, full_text, ret, exc, log>>

----------------------------------------------------------------------------
(* Bounds of the model *)

MaxArgs == 2
MaxSegs == 2
MaxTextLen == 2

(* Input domains *)

Chars == {"a", " "}
Whitespace == {" "}
Times == {0, 1}
Paths == {"a.wav", "b.mp3"}
Msgs == {"m1", "m2"}

Texts == UNION {[1..n -> Chars] : n \in 0..MaxTextLen}
(* what the stream may yield: every text at one time span, and every time  *)
(* span, ordered or not, with the text " a" (the code treats the text and  *)
(* the times of a segment independently)                                   *)
Segments == {[start |-> 0, end |-> 1, text |-> t] : t \in Texts}
            \cup [start : Times, end : Times, text : {<<" ", "a">>}]
Infos == { [language |-> "en", language_probability |-> 987, duration |-> 3],
           [language |-> "fr", language_probability |-> 504, duration |-> 0] }
Argvs == UNION {[1..(n + 1) -> Paths \cup {"transcription-test.py"}] : n \in 0..MaxArgs}

----------------------------------------------------------------------------
(* Values *)

None == [none |-> TRUE]

model_name == "base"

(* str.strip(): leading and trailing whitespace removed *)
RECURSIVE LStrip(_)
LStrip(s) == IF s = <<>> THEN s
             ELSE IF Head(s) \in Whitespace THEN LStrip(Tail(s)) ELSE s

RECURSIVE RStrip(_)
RStrip(s) == IF s = <<>> THEN s
             ELSE IF s[Len(s)] \in Whitespace THEN RStrip(SubSeq(s, 1, Len(s) - 1)) ELSE s

Strip(s) == RStrip(LStrip(s))

(* str(e) of an exception raised with one message argument *)
Str(e) == e.msg

(* f"{p:.2f}" of a probability held in thousandths: hundredths, rounded *)
Fmt2f(p) == (p + 5) \div 10

Write_front(out, line) == <<line>> \o out

(* print(...): one more line on standard output *)
Write(out, line) == Append(out, line)

WrongArgCount_lt(n) == n < 2

(* len(sys.argv) != 2 *)
WrongArgCount(n) == n # 2

SegmentEntry_untrimmed(segment) ==
    [start |-> segment.start, end |-> segment.end, text |-> segment.text]

(* the dict appended for one segment, lines 29-33 *)
SegmentEntry(segment) ==
    [start |-> segment.start, end |-> segment.end, text |-> Strip(segment.text)]

AppendSegment_front(list, entry) == <<entry>> \o list

(* list.append *)
AppendSegment(list, entry) == Append(list, entry)

(* full_text += segment.text + " " *)
Accumulate(text, segment) == text \o segment.text \o <<" ">>

ErrorResult_extra(e) == [error |-> Str(e), text |-> <<>>, segments |-> <<>>]

(* {"error": str(e)} *)
ErrorResult(e) == [error |-> Str(e)]

(* one call made on the collaborator, as recorded in log *)
Call(op, arg) == [op |-> op, arg |-> arg]

Count(op, arg) == Cardinality({i \in DOMAIN log : log[i] = Call(op, arg)})

----------------------------------------------------------------------------
Init ==
    /\ argv \in Argvs
    /\ argv[1] = "transcription-test.py"
    /\ \A i \in 2..Len(argv) : argv[i] \in Paths
    /\ pc = "L43"
    /\ stdout = <<>>
    /\ exit = None
    /\ model = None
    /\ info = None
    /\ yielded = <<>>
    /\ stream = "none"
    /\ result = None
    /\ full_text = <<>>
    /\ ret = None
    /\ exc = None
    /\ log = <<>>

(* lines 43-45 *)
MainUsage ==
    /\ pc = "L43"
    /\ WrongArgCount(Len(argv))
    /\ stdout' = Write(stdout, [kind |-> "usage"])
    /\ exit' = [code |-> 1]
    /\ pc' = "exit"
    /\ UNCHANGED <<argv, model, info, yielded, stream, result, full_text, ret, exc, log>>

(* lines 43, 47-48: the call of transcribe_audio(audio_file) *)
MainCall ==
    /\ pc = "L43"
    /\ ~WrongArgCount(Len(argv))
    /\ pc' = "L11"
    /\ UNCHANGED <<argv, stdout, exit, model, info, yielded, stream, result, full_text,
                   ret, exc, log>>

audio_path == argv[2]

(* line 11 *)
PrintLoading ==
    /\ pc = "L11"
    /\ stdout' = Write(stdout, [kind |-> "Loading", model |-> model_name])
    /\ pc' = "L12"
    /\ UNCHANGED <<argv, exit, model, info, yielded, stream, result, full_text, ret, exc, log>>

(* line 12 *)
LoadModel ==
    /\ pc = "L12"
    /\ log' = Append(log, Call("WhisperModel", model_name))
    /\ \/ /\ model' = [name |-> model_name, device |-> "cpu", compute_type |-> "int8"]
          /\ pc' = "L14"
          /\ exc' = exc
       \/ /\ \E m \in Msgs : exc' = [msg |-> m]
          /\ pc' = "L39"
          /\ model' = model
    /\ UNCHANGED <<argv, stdout, exit, info, yielded, stream, result, full_text, ret>>

(* line 14 *)
PrintTranscribing ==
    /\ pc = "L14"
    /\ stdout' = Write(stdout, [kind |-> "Transcribing", path |-> audio_path])
    /\ pc' = "L15"
    /\ UNCHANGED <<argv, exit, model, info, yielded, stream, result, full_text, ret, exc, log>>

(* line 15 *)
Transcribe ==
    /\ pc = "L15"
    /\ log' = Append(log, Call("transcribe", audio_path))
    /\ \/ /\ info' \in Infos
          /\ stream' = "open"
          /\ pc' = "L17"
          /\ exc' = exc
       \/ /\ \E m \in Msgs : exc' = [msg |-> m]
          /\ pc' = "L39"
          /\ UNCHANGED <<info, stream>>
    /\ UNCHANGED <<argv, stdout, exit, model, yielded, result, full_text, ret>>

(* line 17 *)
PrintDetected ==
    /\ pc = "L17"
    /\ \/ /\ log' = log \o <<Call("read", "language"), Call("read", "language_probability")>>
          /\ stdout' = Write(stdout, [kind |-> "Detected", language |-> info.language,
                                      probability |-> Fmt2f(info.language_probability)])
          /\ pc' = "L19"
          /\ exc' = exc
       \/ /\ log' = Append(log, Call("read", "language"))
          /\ \E m \in Msgs : exc' = [msg |-> m]
          /\ pc' = "L39"
          /\ stdout' = stdout
    /\ UNCHANGED <<argv, exit, model, info, yielded, stream, result, full_text, ret>>

(* lines 19-26 *)
InitResult ==
    /\ pc = "L19"
    /\ \/ /\ log' = log \o <<Call("read", "language"), Call("read", "duration")>>
          /\ result' = [text |-> <<>>, language |-> info.language,
                        duration |-> info.duration, segments |-> <<>>]
          /\ full_text' = <<>>
          /\ pc' = "L27"
          /\ exc' = exc
       \/ /\ log' = log \o <<Call("read", "language"), Call("read", "duration")>>
          /\ \E m \in Msgs : exc' = [msg |-> m]
          /\ pc' = "L39"
          /\ UNCHANGED <<result, full_text>>
    /\ UNCHANGED <<argv, stdout, exit, model, info, yielded, stream, ret>>

ForSegment_reread ==
    /\ pc = "L27"
    /\ Len(yielded) < MaxSegs
    /\ \E segment \in Segments :
          /\ yielded' = Append(yielded, segment)
          /\ full_text' = Accumulate(full_text, segment)
          /\ result' = [result EXCEPT !.segments = AppendSegment(@, SegmentEntry(segment)),
                                      !.duration = info.duration]
    /\ log' = log \o <<Call("next", "segments"), Call("read", "duration")>>
    /\ pc' = "L27"
    /\ UNCHANGED <<argv, stdout, exit, model, info, stream, ret, exc>>

(* lines 27-33: the stream yields one more segment *)
ForSegment ==
    /\ pc = "L27"
    /\ Len(yielded) < MaxSegs
    /\ \E segment \in Segments :
          /\ yielded' = Append(yielded, segment)
          /\ full_text' = Accumulate(full_text, segment)
          /\ result' = [result EXCEPT !.segments = AppendSegment(@, SegmentEntry(segment))]
    /\ log' = Append(log, Call("next", "segments"))
    /\ pc' = "L27"
    /\ UNCHANGED <<argv, stdout, exit, model, info, stream, ret, exc>>

(* line 27: the stream is exhausted *)
ForEnd ==
    /\ pc = "L27"
    /\ log' = Append(log, Call("next", "segments"))
    /\ stream' = "ended"
    /\ pc' = "L35"
    /\ UNCHANGED <<argv, stdout, exit, model, info, yielded, result, full_text, ret, exc>>

(* line 27: producing the next segment fails *)
ForRaise ==
    /\ pc = "L27"
    /\ log' = Append(log, Call("next", "segments"))
    /\ stream' = "failed"
    /\ \E m \in Msgs : exc' = [msg |-> m]
    /\ pc' = "L39"
    /\ UNCHANGED <<argv, stdout, exit, model, info, yielded, result, full_text, ret>>

(* lines 35-37 *)
Return ==
    /\ pc = "L35"
    /\ result' = [result EXCEPT !.text = Strip(full_text)]
    /\ ret' = result'
    /\ pc' = "L49"
    /\ UNCHANGED <<argv, stdout, exit, model, info, yielded, stream, full_text, exc, log>>

Except_partial ==
    /\ pc = "L39"
    /\ ret' = IF result = None THEN ErrorResult(exc)
              ELSE [error |-> Str(exc), text |-> Strip(full_text), segments |-> result.segments]
    /\ pc' = "L49"
    /\ UNCHANGED <<argv, stdout, exit, model, info, yielded, stream, result, full_text,
                   exc, log>>

Except_retry ==
    /\ pc = "L39"
    /\ IF Count("WhisperModel", model_name) < 2
          THEN pc' = "L11" /\ ret' = ret
          ELSE pc' = "L49" /\ ret' = ErrorResult(exc)
    /\ UNCHANGED <<argv, stdout, exit, model, info, yielded, stream, result, full_text,
                   exc, log>>

(* lines 39-40 *)
Except ==
    /\ pc = "L39"
    /\ ret' = ErrorResult(exc)
    /\ pc' = "L49"
    /\ UNCHANGED <<argv, stdout, exit, model, info, yielded, stream, result, full_text,
                   exc, log>>

(* line 49, then the interpreter exits *)
PrintJson ==
    /\ pc = "L49"
    /\ stdout' = Write(stdout, [kind |-> "json", value |-> ret])
    /\ exit' = [code |-> 0]
    /\ pc' = "exit"
    /\ UNCHANGED <<argv, model, info, yielded, stream, result, full_text, ret, exc, log>>

Next ==
    \/ MainUsage
    \/ MainCall
    \/ PrintLoading
    \/ LoadModel
    \/ PrintTranscribing
    \/ Transcribe
    \/ PrintDetected
    \/ InitResult
    \/ ForSegment
    \/ ForEnd
    \/ ForRaise
    \/ Return
    \/ Except
    \/ PrintJson

Spec == Init /\ [][Next]_vars

(* The interpreter runs the script to its end: a step that can be taken is taken. *)
FairSpec == Spec /\ WF_vars(Next)

----------------------------------------------------------------------------
(* Vocabulary of the properties *)

Succeeded == ret # None /\ "text" \in DOMAIN ret
Failed == ret # None /\ "error" \in DOMAIN ret
Started == log # <<>>

(* words joined by single spaces: " ".join(words) *)
RECURSIVE Join(_)
Join(words) == IF words = <<>> THEN <<>>
               ELSE IF Len(words) = 1 THEN words[1]
               ELSE words[1] \o <<" ">> \o Join(Tail(words))

NoEdgeSpace(t) == t = <<>> \/ (t[1] \notin Whitespace /\ t[Len(t)] \notin Whitespace)

(* t is s without its leading and trailing whitespace *)
IsTrimOf(t, s) ==
    /\ NoEdgeSpace(t)
    /\ \E i \in 0..Len(s) :
          /\ i + Len(t) <= Len(s)
          /\ \A k \in 1..Len(t) : s[i + k] = t[k]
          /\ \A k \in 1..i : s[k] \in Whitespace
          /\ \A k \in (i + Len(t) + 1)..Len(s) : s[k] \in Whitespace

TextsOf(segs) == [i \in 1..Len(segs) |-> segs[i].text]

TimeOrdered(segs) ==
    /\ \A i \in 1..Len(segs) : segs[i].start <= segs[i].end
    /\ \A i \in 1..(Len(segs) - 1) : segs[i].start <= segs[i + 1].start

----------------------------------------------------------------------------
(* C1: on every successful return, result.text is the trimmed, single-space *)
(* join of the trimmed texts of result.segments, in order.  The code joins  *)
(* the untrimmed texts, so whitespace at the edge of a segment text inside  *)
(* the transcript survives next to the separator.                           *)
C1_TextIsJoinOfTrimmed ==
    Succeeded => ret.text = Strip(Join(TextsOf(ret.segments)))

(* C4: on every successful return, result.segments has one entry per        *)
(* yielded segment, in yield order, with start and end unchanged and the    *)
(* text trimmed.                                                            *)
C4_SegmentsMirrorStream ==
    Succeeded =>
        /\ Len(ret.segments) = Len(yielded)
        /\ \A i \in 1..Len(yielded) :
              /\ DOMAIN ret.segments[i] = {"start", "end", "text"}
              /\ ret.segments[i].start = yielded[i].start
              /\ ret.segments[i].end = yielded[i].end
              /\ IsTrimOf(ret.segments[i].text, yielded[i].text)

(* a successful return of two segments that differ in every field, each    *)
(* with whitespace at one edge of its text                                  *)
C4_Witness ==
    /\ Succeeded
    /\ Len(yielded) = 2
    /\ yielded[1].start # yielded[2].start
    /\ yielded[2].start # yielded[2].end
    /\ yielded[1].text = <<"a", " ">>
    /\ yielded[2].text = <<" ", "a">>

(* C8 as stated: on every successful return, result.segments is ordered by  *)
(* non-decreasing start and every segment has start <= end.                 *)
C8_AlwaysTimeOrdered ==
    Succeeded => TimeOrdered(ret.segments)

(* C8 amended: on every successful return for which the model yielded its   *)
(* segments by non-decreasing start, each with start <= end,                *)
(* result.segments is ordered by non-decreasing start and every segment has *)
(* start <= end.                                                            *)
C8_TimeOrderPreserved ==
    (Succeeded /\ TimeOrdered(yielded)) => TimeOrdered(ret.segments)

C8_Witness ==
    /\ Succeeded
    /\ TimeOrdered(yielded)
    /\ Len(ret.segments) = 2
    /\ ret.segments[1].start < ret.segments[2].start

----------------------------------------------------------------------------
Kinds(out) == [i \in 1..Len(out) |-> out[i].kind]

IsPrefix(a, b) == Len(a) <= Len(b) /\ \A i \in 1..Len(a) : a[i] = b[i]

Progress == <<"Loading", "Transcribing", "Detected">>

(* the state of the run, read off the position in the code and the value    *)
(* returned                                                                 *)
Phase ==
    CASE pc = "L43" -> "Idle"
      [] pc \in {"L11", "L12"} -> "ModelLoading"
      [] pc \in {"L14", "L15", "L17", "L19", "L27", "L35"} -> "Transcribing"
      [] pc = "L39" -> "Failed"
      [] OTHER -> IF Failed THEN "Failed" ELSE IF Succeeded THEN "Done" ELSE "Idle"

PhaseEdges ==
    { <<"Idle", "ModelLoading">>, <<"ModelLoading", "Transcribing">>,
      <<"Transcribing", "Done">>, <<"ModelLoading", "Failed">>,
      <<"Transcribing", "Failed">> }

(* C2: once a step of transcribe_audio has raised, control is in the        *)
(* handler or back in the caller, never lost, and the value returned is the *)
(* mapping whose only key is error, holding the message of the failure.     *)
C2_FailureBecomesError ==
    exc # None =>
        /\ pc \in {"L39", "L49", "exit"}
        /\ pc # "L39" => (ret = [error |-> exc.msg] /\ DOMAIN ret = {"error"})

(* the metadata could not be read and the caller has the error mapping      *)
C2_Witness ==
    /\ exc # None
    /\ info # None
    /\ result = None
    /\ pc = "L49"
    /\ Failed

(* C3: a wrong argument count prints the usage string and exits with code 1 *)
(* without any call on the model; exactly one argument exits with code 0,   *)
(* whether the transcription succeeded or failed.                           *)
C3_ExitCodes ==
    /\ Len(argv) # 2 => (log = <<>> /\ model = None /\ pc \in {"L43", "exit"})
    /\ pc # "exit" => exit = None
    /\ pc = "exit" => exit = [code |-> IF Len(argv) # 2 THEN 1 ELSE 0]
    /\ (pc = "exit" /\ Len(argv) # 2) => stdout = <<[kind |-> "usage"]>>
    /\ (pc = "exit" /\ Len(argv) = 2) => (Succeeded \/ Failed)

(* two arguments: usage, exit code 1 *)
C3_Witness ==
    /\ pc = "exit"
    /\ Len(argv) = 3
    /\ exit = [code |-> 1]

(* C5: a value with text or segments is returned only once the stream has   *)
(* been consumed to its end; if the stream fails, also after segments have  *)
(* been appended, the value returned has the error key alone; and nothing   *)
(* but the value returned is printed as the payload.                        *)
C5_NoPartialResult ==
    /\ (ret # None /\ DOMAIN ret \cap {"text", "segments"} # {}) => stream = "ended"
    /\ (ret # None /\ stream = "failed") => DOMAIN ret = {"error"}
    /\ \A i \in DOMAIN stdout : stdout[i].kind = "json" => stdout[i].value = ret

(* the stream failed after a segment was appended, and the call returned    *)
C5_Witness ==
    /\ ret # None
    /\ stream = "failed"
    /\ Len(yielded) >= 1
    /\ Len(result.segments) >= 1
    /\ full_text # <<>>

(* C6: with exactly one argument, standard output is a prefix of the three  *)
(* progress lines in their order, followed at the end of the run by exactly *)
(* one JSON payload, which is the last line; a successful run has all three *)
(* progress lines.                                                          *)
C6_ProgressThenJson ==
    Len(argv) = 2 =>
        LET k == Kinds(stdout)
            n == Len(stdout)
            hasJson == n > 0 /\ k[n] = "json"
        IN  /\ IsPrefix(IF hasJson THEN SubSeq(k, 1, n - 1) ELSE k, Progress)
            /\ hasJson <=> pc = "exit"
            /\ (pc = "exit" /\ Succeeded) => n = 4

(* a failed run: two progress lines, then the payload *)
C6_Witness ==
    /\ pc = "exit"
    /\ Failed
    /\ Kinds(stdout) = <<"Loading", "Transcribing", "json">>

(* C7: a run moves along Idle -> ModelLoading -> Transcribing -> Done, or   *)
(* to Failed from ModelLoading or Transcribing, and along no other edge;    *)
(* the model is acquired at most once and transcribe is called at most      *)
(* once; the value returned is set once and a failure is printed once; and  *)
(* every run that enters transcribe_audio reaches Done or Failed.           *)
C7_Once ==
    /\ Count("WhisperModel", model_name) <= 1
    /\ \A p \in Paths : Count("transcribe", p) <= 1
    /\ Cardinality({i \in DOMAIN stdout : stdout[i].kind = "json"}) <= 1
    /\ (pc = "exit" /\ Failed) =>
          Cardinality({i \in DOMAIN stdout : stdout[i] = [kind |-> "json", value |-> ret]}) = 1

C7_LinearRun ==
    /\ [][ /\ Phase' = Phase \/ <<Phase, Phase'>> \in PhaseEdges
           /\ ret # None => ret' = ret ]_vars
    /\ []C7_Once
    /\ (pc = "L11") ~> (Phase \in {"Done", "Failed"})

(* a run that failed in Transcribing and has exited *)
C7_Witness ==
    /\ pc = "exit"
    /\ Phase = "Failed"
    /\ model # None
    /\ Count("transcribe", audio_path) = 1

(* C10 as stated: each field of the metadata is read once, and never before *)
(* the first segment has been requested from the stream.                    *)
C10_ReadOnceAfterFirstRequest ==
    /\ \A f \in {"language", "language_probability", "duration"} : Count("read", f) <= 1
    /\ \A i \in DOMAIN log :
          log[i].op = "read" => \E j \in 1..(i - 1) : log[j].op = "next"

(* C10 amended: the metadata is read after the transcribe call and before   *)
(* the first segment is requested from the stream, never during or after    *)
(* its consumption; the language is read twice (for the progress line and   *)
(* for the result), its probability and the duration once each.             *)
C10_ReadBeforeStream ==
    /\ \A i \in DOMAIN log :
          log[i].op = "read" =>
              /\ \E j \in 1..(i - 1) : log[j].op = "transcribe"
              /\ \A j \in 1..(i - 1) : log[j].op # "next"
    /\ Count("read", "language") <= 2
    /\ Count("read", "language_probability") <= 1
    /\ Count("read", "duration") <= 1
    /\ Succeeded => /\ Count("read", "language") = 2
                    /\ Count("read", "language_probability") = 1
                    /\ Count("read", "duration") = 1

(* a successful return after the stream yielded segments *)
C10_Witness ==
    /\ Succeeded
    /\ Len(yielded) >= 1
    /\ Count("next", "segments") = Len(yielded) + 1

====
